---- MODULE Spec2Model ----
(***************************************************************************)
(* A model of target.js: the Target component base class (core/Target.js), *)
(* its StyleManager (core/StyleManager.js) and the FluidContainer          *)
(* component.  The document head is one sequence of nodes shared by every  *)
(* StyleManager instance; every handler runs to completion (the event loop *)
(* is single-threaded), so each operation is one action.                   *)
(***************************************************************************)
EXTENDS Naturals, Sequences, FiniteSets, TLC

VARIABLES head,           \* document.head: the sequence of <style>/<link> nodes
          styles,         \* styles[i]: StyleManager i's Map key -> style element
          injectedLinks,  \* injectedLinks[i]: StyleManager i's Set of hrefs
          comp,           \* comp[c]: the fields of component instance c
          dom,            \* dom[c]: innerHTML of the element c was constructed on
          firsts,         \* firsts[c]: event kinds of c in order of first occurrence
          last,           \* the operation that ran last, its events and outcome
          helper          \* a call of a static helper: its arguments and its result

vars == <<head, styles, injectedLinks, comp, dom, firsts, last, helper>>

----------------------------------------------------------------------------
(* Bounds and input sets *)

MaxHead == 3        \* at most this many nodes in the document head
MaxStyles == 2      \* at most this many <style> nodes among them
MaxPending == 2     \* at most this many GET requests in flight per component

Comp == {1, 2}      \* component instances; component c owns StyleManager c
Keys == {"a", "a-x"}
Hashes == {"x", "y"}
ModuleBase == "M/"
Files == {"a.css", "./a.css"}          \* relative file names
Urls == {"M/a.css"}                    \* absolute URLs
Ids == 1..(MaxHead + Cardinality(Comp) * Cardinality(Keys))

\* css rule objects: sequences of <<selector, declarations>>
CssRed == << <<".t", "color:red">> >>
CssNone == << >>
\* the (css, scoped) arguments addStyle is called with
StyleArgs == {[css |-> CssRed, scoped |-> TRUE], [css |-> CssNone, scoped |-> FALSE]}

----------------------------------------------------------------------------
(* StyleManager *)

\* The program state the operators below transform.
World == [head |-> head, styles |-> styles, links |-> injectedLinks,
          comp |-> comp, dom |-> dom, ev |-> << >>, raised |-> FALSE,
          ss |-> 0, writes |-> << >>, caller |-> << >>]
\* ss counts the setState calls made, writes lists the container contents
\* written, caller marks what the caller did before the first event

\* ev records what an operation did, in order: "ADD"/"DEL" a head node appended or
\* removed, "WM"/"DM"/"DU" a lifecycle hook called, "W" render() written into the
\* container, "CLR" the container cleared, "GET" a request issued
Emit(w, e) == [w EXCEPT !.ev = Append(@, e)]

\* F(v), with the value of v computed once
Bind(v, F(_)) == CHOOSE r \in {F(w) : w \in {v}} : TRUE

RECURSIVE SeqRemoveAt(_, _)
SeqRemoveAt(s, k) ==
  IF k = 1 THEN Tail(s) ELSE <<Head(s)>> \o SeqRemoveAt(Tail(s), k - 1)

\* document.querySelector(`tag[data-style-key="key"]`): index of the first match, 0 if none
QuerySelector(h, tag, key) ==
  LET hits == {k \in 1..Len(h) : h[k].tag = tag /\ h[k].key = key}
  IN IF hits = {} THEN 0 ELSE CHOOSE k \in hits : \A j \in hits : k <= j

\* a new element is distinct from every element still referenced
FreshId(w) ==
  LET used == {w.head[k].id : k \in 1..Len(w.head)}
              \cup UNION {{w.styles[i][q] : q \in DOMAIN w.styles[i]} : i \in Comp}
  IN CHOOSE n \in Ids \ used : \A m \in Ids \ used : n <= m

\* new URL(filename, import.meta.url).href
Resolve(filename) ==
  IF filename \in Files THEN ModuleBase \o "a.css" ELSE filename

prefixSelector(selector, hash) == selector \o "-" \o hash

RECURSIVE CssString(_, _, _)
CssString(css, hash, scoped) ==
  IF css = << >> THEN ""
  ELSE LET sel == IF scoped THEN prefixSelector(Head(css)[1], hash) ELSE Head(css)[1]
       IN sel \o " { " \o Head(css)[2] \o " }" \o CssString(Tail(css), hash, scoped)

\* isStyleLoaded without the registry lookup
isStyleLoadedDomOnly(w, i, key) == QuerySelector(w.head, "style", key) # 0
isStyleLoaded(w, i, key) ==
  key \in DOMAIN w.styles[i] \/ QuerySelector(w.head, "style", key) # 0

isLinkedStyleLoaded(w, i, filename) ==
  Resolve(filename) \in w.links[i] \/ QuerySelector(w.head, "link", filename) # 0

isInjectedLinkedStyleLoaded(w, i, href) ==
  href \in w.links[i] \/ QuerySelector(w.head, "link", href) # 0

MapPut(f, k, v) == [q \in DOMAIN f \cup {k} |-> IF q = k THEN v ELSE f[q]]
MapDelete(f, k) == [q \in DOMAIN f \ {k} |-> f[q]]

addStyle(v, i, key, css, hash, scoped) ==
  Bind(v, LAMBDA w :
  IF isStyleLoaded(w, i, key) THEN w
  ELSE LET n == FreshId(w)
           el == [id |-> n, tag |-> "style", key |-> key \o "-" \o hash,
                  href |-> "", css |-> CssString(css, hash, scoped), by |-> i]
       IN Emit([w EXCEPT !.head = Append(@, el), !.styles[i] = MapPut(@, key, n)], "ADD")
  )

removeStyle(v, i, key) ==
  Bind(v, LAMBDA w :
  LET k == QuerySelector(w.head, "style", key)
  IN IF k # 0
     THEN Emit([w EXCEPT !.head = SeqRemoveAt(@, k), !.styles[i] = MapDelete(@, key)], "DEL")
     ELSE w
  )

loadLinkedStyle(v, i, filename) ==
  Bind(v, LAMBDA w :
  IF isLinkedStyleLoaded(w, i, filename) THEN w
  ELSE LET el == [id |-> FreshId(w), tag |-> "link", key |-> filename,
                  href |-> Resolve(filename), css |-> "", by |-> i]
       IN Emit([w EXCEPT !.head = Append(@, el), !.links[i] = @ \cup {el.href}], "ADD")
  )

\* removeLinkedStyle deleting the file name, not the resolved href, from the set
removeLinkedStyleRawKey(v, i, filename) ==
  Bind(v, LAMBDA w :
  LET k == QuerySelector(w.head, "link", filename)
  IN IF k # 0
     THEN Emit([w EXCEPT !.head = SeqRemoveAt(@, k), !.links[i] = @ \ {filename}], "DEL")
     ELSE w
  )

removeLinkedStyle(v, i, filename) ==
  Bind(v, LAMBDA w :
  LET k == QuerySelector(w.head, "link", filename)
  IN IF k # 0
     THEN Emit([w EXCEPT !.head = SeqRemoveAt(@, k), !.links[i] = @ \ {Resolve(filename)}],
               "DEL")
     ELSE w
  )

injectLinkedStyle(v, i, href) ==
  Bind(v, LAMBDA w :
  IF isInjectedLinkedStyleLoaded(w, i, href) THEN w
  ELSE LET el == [id |-> FreshId(w), tag |-> "link", key |-> href,
                  href |-> href, css |-> "", by |-> i]
       IN Emit([w EXCEPT !.head = Append(@, el), !.links[i] = @ \cup {href}], "ADD")
  )

removeInjectedLinkedStyle(v, i, href) ==
  Bind(v, LAMBDA w :
  LET k == QuerySelector(w.head, "link", href)
  IN IF k # 0
     THEN Emit([w EXCEPT !.head = SeqRemoveAt(@, k), !.links[i] = @ \ {href}], "DEL")
     ELSE w
  )

\* the two loops of removeAllStyles; the entries visited are distinct, and
\* removals for distinct keys commute, so the visiting order does not matter
RECURSIVE RemoveStyleKeys(_, _, _)
RemoveStyleKeys(v, i, ks) ==
  Bind(v, LAMBDA w :
  IF ks = {} THEN w
  ELSE LET k == CHOOSE q \in ks : TRUE
       IN RemoveStyleKeys(removeStyle(w, i, k), i, ks \ {k})
  )

RECURSIVE RemoveLinkHrefs(_, _, _)
RemoveLinkHrefs(v, i, hs) ==
  Bind(v, LAMBDA w :
  IF hs = {} THEN w
  ELSE LET h == CHOOSE q \in hs : TRUE
       IN RemoveLinkHrefs(removeInjectedLinkedStyle(w, i, h), i, hs \ {h})
  )

removeAllStyles(v, i) ==
  Bind(v, LAMBDA w :
    Bind(RemoveStyleKeys(w, i, DOMAIN w.styles[i]), LAMBDA w1 :
      RemoveLinkHrefs(w1, i, w1.links[i])))

----------------------------------------------------------------------------
(* Strings, values and the static helpers of Target *)

MaxLen == 4         \* strings of at most this many tokens

\* A string is a sequence of tokens; a token is a run of characters that the
\* regular expressions of the helpers treat alike.
Digits == <<"0", "1", "2", "3", "4", "5", "6", "7", "8", "9">>
IsDigit(t) == \E d \in 1..Len(Digits) : Digits[d] = t
DigitVal(t) == (CHOOSE d \in 1..Len(Digits) : Digits[d] = t) - 1
\* [a-zA-Z]+
LetterTokens == {"a", "h", "x", "content", "constructor", "toString", "true", "false"}
\* \w+
WordTokens == LetterTokens \cup {Digits[d] : d \in 1..Len(Digits)}

\* name="value" preceded by a blank, as it stands inside a tag
HrefAttr == " href=\"u&v\""
OnclickAttr == " onclick=\"e\""
AttrTokens == {HrefAttr, OnclickAttr}
AttrName(t) == IF t = HrefAttr THEN "href" ELSE "onclick"
AttrValue(t) == IF t = HrefAttr THEN <<"u", "&", "v">> ELSE <<"e">>

\* the body of a JSON object, between its braces
JsonBody == "\"k\":1"

RECURSIVE Join(_)
Join(s) == IF s = << >> THEN "" ELSE Head(s) \o Join(Tail(s))

\* JavaScript values
Str(s) == [t |-> "string", s |-> s]
Num(n) == [t |-> "number", n |-> n]
Bool(b) == [t |-> "boolean", b |-> b]
JsNull == [t |-> "null"]
Undefined == [t |-> "undefined"]
Obj(m) == [t |-> "object", m |-> m]
Arr(a) == [t |-> "array", a |-> a]
Function == [t |-> "function"]

\* the properties every object literal inherits from Object.prototype
ObjectPrototype ==
  {"constructor", "toString", "valueOf", "hasOwnProperty", "isPrototypeOf",
   "propertyIsEnumerable", "toLocaleString", "__proto__"}

\* object[key]
Lookup(object, key) ==
  IF key \in DOMAIN object THEN object[key]
  ELSE IF key \in ObjectPrototype THEN Function
  ELSE Undefined

\* the first index from j on whose token is not in set, Len(s) + 1 if none
RECURSIVE RunEnd(_, _, _)
RunEnd(s, j, set) ==
  IF j > Len(s) \/ s[j] \notin set THEN j ELSE RunEnd(s, j + 1, set)

\* the first index from k on that holds token t, 0 if none
RECURSIVE IndexFrom(_, _, _)
IndexFrom(s, k, t) ==
  IF k > Len(s) THEN 0 ELSE IF s[k] = t THEN k ELSE IndexFrom(s, k + 1, t)

RECURSIVE DecimalValue(_)
DecimalValue(s) ==
  IF s = << >> THEN 0
  ELSE DecimalValue(SubSeq(s, 1, Len(s) - 1)) * 10 + DigitVal(s[Len(s)])

\* Number.prototype.toString
RECURSIVE NumToString(_)
NumToString(n) ==
  IF n < 10 THEN <<Digits[n + 1]>>
  ELSE NumToString(n \div 10) \o <<Digits[(n % 10) + 1]>>

\* Number(string): the empty string is 0, a run of digits its value, else NaN
StringToNumber(s) ==
  IF \A k \in 1..Len(s) : IsDigit(s[k])
  THEN [nan |-> FALSE, n |-> DecimalValue(s)]
  ELSE [nan |-> TRUE, n |-> 0]

\* Array.prototype.join(","), the string an array of strings converts to
RECURSIVE JoinComma(_)
JoinComma(a) ==
  IF a = << >> THEN << >>
  ELSE IF Len(a) = 1 THEN a[1]
  ELSE a[1] \o <<",">> \o JoinComma(Tail(a))

\* Number(value)
ToNumber(v) ==
  CASE v.t = "string" -> StringToNumber(v.s)
    [] v.t = "number" -> [nan |-> FALSE, n |-> v.n]
    [] v.t = "boolean" -> [nan |-> FALSE, n |-> IF v.b THEN 1 ELSE 0]
    [] v.t = "null" -> [nan |-> FALSE, n |-> 0]
    [] v.t = "array" -> StringToNumber(JoinComma(v.a))
    [] OTHER -> [nan |-> TRUE, n |-> 0]

\* the character map of escapeHTML without tags
Entity(t) ==
  CASE t = "&" -> "&amp;"
    [] t = "<" -> "&lt;"
    [] t = ">" -> "&gt;"
    [] t = "\"" -> "&quot;"
    [] t = "'" -> "&#39;"
    [] OTHER -> t

\* str.replace(/[&<>"']/g, ...)
EscapeText(s) ==
  [k \in 1..Len(s) |->
     IF s[k] \in AttrTokens
     THEN " " \o AttrName(s[k]) \o "=&quot;"
          \o Join([j \in 1..Len(AttrValue(s[k])) |-> Entity(AttrValue(s[k])[j])])
          \o "&quot;"
     ELSE Entity(s[k])]

\* const allowedTags = { ... }: tag name -> attribute names
AllowedNames ==
  {"b", "i", "u", "s", "a", "code", "pre", "blockquote", "ul", "ol", "li",
   "h1", "h2", "h3", "h4", "h5", "h6", "p", "br", "hr", "table", "thead",
   "tbody", "tfoot", "tr", "th", "td", "div", "span"}
allowedTags == [n \in AllowedNames |-> IF n = "a" THEN {"href", "title"} ELSE {}]

\* tagRegex = /<\/?([a-zA-Z]+)([^>]*)>/ tried at index i
TagMatch(s, i) ==
  LET closing == i + 1 <= Len(s) /\ s[i + 1] = "/"
      j == IF closing THEN i + 2 ELSE i + 1
      k == RunEnd(s, j, LetterTokens)
      m == IF s[i] = "<" /\ k > j THEN IndexFrom(s, k, ">") ELSE 0
  IN [ok |-> m # 0, closing |-> closing, end |-> m,
      tagName |-> IF m # 0 THEN SubSeq(s, j, k - 1) ELSE << >>,
      attrs |-> IF m # 0 THEN SubSeq(s, k, m - 1) ELSE << >>]

\* the while loop over attrRegex = /([a-zA-Z]+)="([^"]*)"/g
RECURSIVE SafeAttrs(_, _)
SafeAttrs(allowed, attrs) ==
  IF attrs = << >> THEN << >>
  ELSE (IF Head(attrs) \in AttrTokens /\ AttrName(Head(attrs)) \in allowed
        THEN <<" " \o AttrName(Head(attrs)) \o "=\""
               \o Join(EscapeText(AttrValue(Head(attrs)))) \o "\"">>
        ELSE << >>)
       \o SafeAttrs(allowed, Tail(attrs))

\* the replacement callback of escapeHTML with tags
ReplaceTag(s, i, mt) ==
  LET name == Join(mt.tagName)
      open == <<"<">> \o (IF mt.closing THEN <<"/">> ELSE << >>) \o mt.tagName
  IN IF name \in DOMAIN allowedTags
     THEN [out |-> open \o SafeAttrs(allowedTags[name], mt.attrs) \o <<">">>,
           raised |-> FALSE]
     ELSE IF name \in ObjectPrototype
     THEN \* allowedTags[tagName] is an inherited function, which has no includes
          IF \E k \in 1..Len(mt.attrs) : mt.attrs[k] \in AttrTokens
          THEN [out |-> << >>, raised |-> TRUE]
          ELSE [out |-> open \o <<">">>, raised |-> FALSE]
     ELSE [out |-> [k \in 1..(mt.end - i + 1) |->
                      IF s[i + k - 1] \in {"<", ">"} THEN Entity(s[i + k - 1])
                      ELSE s[i + k - 1]],
           raised |-> FALSE]

\* str.replace(tagRegex, ...) from index i on
RECURSIVE EscapeTagsFrom(_, _)
EscapeTagsFrom(s, i) ==
  IF i > Len(s) THEN [out |-> << >>, raised |-> FALSE]
  ELSE LET mt == TagMatch(s, i)
       IN IF mt.ok
          THEN LET r == ReplaceTag(s, i, mt)
                   rest == EscapeTagsFrom(s, mt.end + 1)
               IN [out |-> r.out \o rest.out, raised |-> r.raised \/ rest.raised]
          ELSE LET rest == EscapeTagsFrom(s, i + 1)
               IN [out |-> <<s[i]>> \o rest.out, raised |-> rest.raised]

escapeHTML(str, allowTags) ==
  IF str.t \notin {"number", "string"} THEN [out |-> << >>, raised |-> FALSE]
  ELSE LET s == IF str.t = "number" THEN NumToString(str.n) ELSE str.s
       IN IF allowTags THEN EscapeTagsFrom(s, 1)
          ELSE [out |-> EscapeText(s), raised |-> FALSE]

\* template.replace(/\{\{(\w+)\}\}/g, ...) from index i on
RECURSIVE ParseFrom(_, _, _)
ParseFrom(s, placeholders, i) ==
  IF i > Len(s) THEN [out |-> << >>, raised |-> FALSE]
  ELSE LET k == RunEnd(s, i + 1, WordTokens)
           ok == s[i] = "{{" /\ k > i + 1 /\ k <= Len(s) /\ s[k] = "}}"
           key == Join(SubSeq(s, i + 1, k - 1))
       IN IF ok
          THEN LET v == Lookup(placeholders, key)
                   r == IF v.t # "undefined"
                        THEN escapeHTML(v, key = "content")
                        ELSE [out |-> SubSeq(s, i, k), raised |-> FALSE]
                   rest == ParseFrom(s, placeholders, k + 1)
               IN [out |-> r.out \o rest.out, raised |-> r.raised \/ rest.raised]
          ELSE LET rest == ParseFrom(s, placeholders, i + 1)
               IN [out |-> <<s[i]>> \o rest.out, raised |-> rest.raised]

parseHTML(template, placeholders) == ParseFrom(template, placeholders, 1)

\* JSON.parse of a string that starts with "{" and ends with "}"
JsonParse(s) ==
  LET body == SubSeq(s, 2, Len(s) - 1)
  IN IF Len(s) >= 2 /\ body = << >> THEN [ok |-> TRUE, value |-> Obj(<< >>)]
     ELSE IF Len(s) >= 2 /\ body = <<JsonBody>>
          THEN [ok |-> TRUE, value |-> Obj([k |-> Num(1)])]
     ELSE [ok |-> FALSE, value |-> Undefined]

\* the body of the reduce callback of dataToObject for one entry
CoerceValue(value) ==
  IF value.t = "string" /\ value.s \in {<<"true">>, <<"false">>}
  THEN [value |-> Bool(value.s = <<"true">>), raised |-> FALSE]
  ELSE IF ~ToNumber(value).nan
  THEN [value |-> Num(ToNumber(value).n), raised |-> FALSE]
  ELSE IF value.t # "string"
  THEN \* value.startsWith is not a function
       [value |-> Undefined, raised |-> TRUE]
  ELSE IF Len(value.s) > 0 /\ value.s[1] = "{" /\ value.s[Len(value.s)] = "}"
  THEN [value |-> IF JsonParse(value.s).ok THEN JsonParse(value.s).value ELSE value,
        raised |-> FALSE]
  ELSE [value |-> value, raised |-> FALSE]

dataToObject(data) ==
  IF data.t \in {"null", "undefined"} THEN [out |-> << >>, raised |-> FALSE]
  ELSE [out |-> [q \in DOMAIN data.m |-> CoerceValue(data.m[q]).value],
        raised |-> \E q \in DOMAIN data.m : CoerceValue(data.m[q]).raised]

----------------------------------------------------------------------------
(* Target and FluidContainer *)

EmptyMap == << >>
MapGet(f, k, dflt) == IF k \in DOMAIN f THEN f[k] ELSE dflt
\* an assignment of the patch alone
MapReplace(a, b) == b
\* { ...a, ...b }
MapMerge(a, b) ==
  [q \in DOMAIN a \cup DOMAIN b |-> IF q \in DOMAIN b THEN b[q] ELSE a[q]]

\* state values are written as strings: "null", "true", "false", a message, a payload
Null == "null"
True == "true"
False == "false"
\* JavaScript truthiness of the values the state holds
Truthy(v) == v \notin {Null, False, ""}

\* response bodies of the GET, named in the state by a string
JsonFlat == "flat"      \* a response body whose values are all strings
JsonNested == "nested"  \* a response body that holds an array
Jsons == {JsonFlat, JsonNested}
Payload(data) ==
  IF data = JsonNested THEN Obj([id |-> Num(1), pages |-> Arr(<< <<"x">>, <<"x">> >>)])
  ELSE Obj([title |-> Str(<<"x">>)])

StyleId == "a"          \* the container's data-target-name
HashOf(c) == IF c = 1 THEN "x" ELSE "y"

\* new Target(props, container): the base class
TargetProps == [kind |-> "Target", api |-> FALSE, css |-> FALSE,
                links |-> << >>, scoped |-> FALSE]
\* FluidContainer with props.api, props.css, props.links and props.scoped
FluidApiProps == [kind |-> "FluidContainer", api |-> TRUE, css |-> TRUE,
                  links |-> <<"M/a.css">>, scoped |-> TRUE]
\* FluidContainer without props.api
FluidPlainProps == [kind |-> "FluidContainer", api |-> FALSE, css |-> TRUE,
                    links |-> << >>, scoped |-> FALSE]
Profiles == {TargetProps, FluidApiProps, FluidPlainProps}
\* FluidContainer with props.links only
FluidLinksProps == [kind |-> "FluidContainer", api |-> FALSE, css |-> FALSE,
                    links |-> <<"M/a.css">>, scoped |-> FALSE]

FluidInitialState ==
  [data |-> Null, loading |-> True, error |-> Null, fetched |-> False]

\* a constructor that issues the GET itself
ConstructEagerGet(c, props) ==
  [props |-> props,
   state |-> IF props.kind = "FluidContainer" THEN FluidInitialState ELSE EmptyMap,
   container |-> TRUE, isMounted |-> FALSE, hash |-> HashOf(c),
   styleId |-> StyleId, pending |-> IF props.api THEN 1 ELSE 0, scopeN |-> 0]
Construct(c, props) ==
  [props |-> props,
   state |-> IF props.kind = "FluidContainer" THEN FluidInitialState ELSE EmptyMap,
   container |-> TRUE, isMounted |-> FALSE, hash |-> HashOf(c),
   styleId |-> StyleId, pending |-> 0, scopeN |-> 0]

\* the class names of the class attribute in props.html as the page passes it
TemplateClasses == <<"t", "box">>

\* scopeCSS(html, suffix) on the class names of a class attribute:
\* classNames.split(" ").map((className) => `${className}-${suffix}`)
scopeCSS(classNames, suffix) ==
  [k \in 1..Len(classNames) |-> classNames[k] \o "-" \o suffix]

\* props.html after n assignments this.props.html = Target.scopeCSS(this.props.html, hash)
RECURSIVE PropsHtml(_, _)
PropsHtml(hash, n) ==
  IF n = 0 THEN TemplateClasses ELSE scopeCSS(PropsHtml(hash, n - 1), hash)

\* render(): the markup fragment, and props.html after the call
\* (FluidContainer.render re-assigns props.html when props.scoped is set)
RenderOut(k) ==
  IF k.props.kind = "Target" THEN << >>
  ELSE IF Truthy(MapGet(k.state, "loading", Null)) THEN <<"loading">>
  ELSE IF Truthy(MapGet(k.state, "error", Null))
       THEN <<"error", MapGet(k.state, "error", Null)>>
  ELSE <<"html", (IF k.props.scoped THEN k.scopeN + 1 ELSE k.scopeN),
         MapGet(k.state, "data", Null)>>

RenderScopeN(k) ==
  IF /\ k.props.kind = "FluidContainer"
     /\ ~Truthy(MapGet(k.state, "loading", Null))
     /\ ~Truthy(MapGet(k.state, "error", Null))
     /\ k.props.scoped
  THEN k.scopeN + 1 ELSE k.scopeN

\* render() throws when dataToObject(this.state.data) does
RenderRaises(k) ==
  /\ k.props.kind = "FluidContainer"
  /\ ~Truthy(MapGet(k.state, "loading", Null))
  /\ ~Truthy(MapGet(k.state, "error", Null))
  /\ Truthy(MapGet(k.state, "data", Null))
  /\ dataToObject(Payload(k.state.data)).raised

\* this.container.innerHTML = this.render()
WriteRender(v, c) ==
  Bind(v, LAMBDA w :
  LET k == w.comp[c]
  IN IF RenderRaises(k)
     THEN [w EXCEPT !.comp[c].scopeN = RenderScopeN(k), !.raised = TRUE]
     ELSE Emit([w EXCEPT !.dom[c] = RenderOut(k), !.comp[c].scopeN = RenderScopeN(k),
                         !.writes = Append(@, RenderOut(k))], "W")
  )

RECURSIVE InjectLinks(_, _, _)
InjectLinks(v, c, ls) ==
  Bind(v, LAMBDA w :
  IF ls = << >> THEN w
  ELSE InjectLinks(injectLinkedStyle(w, c, Head(ls)), c, Tail(ls))
  )

targetWillMount(v, c) ==
  Bind(v, LAMBDA w :
  LET k == w.comp[c]
      w0 == Emit(w, "WM")
  IN IF k.props.kind = "Target" THEN w0
     ELSE LET w1 == IF k.props.css
                    THEN addStyle(w0, c, k.styleId, CssRed, k.hash, k.props.scoped)
                    ELSE w0
          IN InjectLinks(w1, c, k.props.links)
  )

targetDidUpdate(w, c) == Emit(w, "DU")

RECURSIVE update(_, _)
RECURSIVE setState(_, _, _)
RECURSIVE targetDidMount(_, _)

targetDidMount(v, c) ==
  Bind(v, LAMBDA w :
  LET k == w.comp[c]
      w0 == Emit(w, "DM")
      fetched == Truthy(MapGet(k.state, "fetched", Null))
  IN IF k.props.kind = "Target" THEN w0
     ELSE LET w1 == IF ~fetched /\ k.props.api
                    THEN Emit([w0 EXCEPT !.comp[c].pending = @ + 1], "GET")
                    ELSE w0
          IN IF ~k.props.api /\ ~fetched
             THEN setState(w1, c, [loading |-> False, fetched |-> True])
             ELSE w1
  )

\* update() without its if (this.container) guard
updateUnguarded(v, c) ==
  Bind(v, LAMBDA w :
  LET w1 == IF ~w.comp[c].isMounted THEN targetWillMount(w, c) ELSE w
      w2 == WriteRender(w1, c)
      d == targetDidMount(w2, c)
      w3 == IF w2.raised \/ w2.comp[c].isMounted THEN w2
            ELSE IF d.raised THEN d
            ELSE [d EXCEPT !.comp[c].isMounted = TRUE]
  IN IF w3.raised THEN w3 ELSE targetDidUpdate(w3, c)
  )

\* update() that keeps the render of the first cycle and writes it into the
\* container after targetDidMount has returned
updateWritesAfterMount(v, c) ==
  Bind(v, LAMBDA w :
  IF w.comp[c].container
  THEN LET w1 == IF ~w.comp[c].isMounted THEN targetWillMount(w, c) ELSE w
           w2 == WriteRender(w1, c)
           d == targetDidMount(w2, c)
           w3 == IF w2.raised \/ w2.comp[c].isMounted THEN w2
                 ELSE IF d.raised THEN d
                 ELSE [d EXCEPT !.comp[c].isMounted = TRUE, !.dom[c] = w2.dom[c]]
       IN IF w3.raised THEN w3 ELSE targetDidUpdate(w3, c)
  ELSE w
  )

\* an exception thrown by render() or by a hook leaves update() at once
update(v, c) ==
  Bind(v, LAMBDA w :
    IF w.comp[c].container
    THEN Bind(WriteRender(IF ~w.comp[c].isMounted THEN targetWillMount(w, c) ELSE w, c),
              LAMBDA w2 :
           IF w2.raised THEN w2
           ELSE IF w2.comp[c].isMounted THEN targetDidUpdate(w2, c)
           ELSE Bind(targetDidMount(w2, c), LAMBDA d :
                  IF d.raised THEN d
                  ELSE targetDidUpdate([d EXCEPT !.comp[c].isMounted = TRUE], c)))
    ELSE w)

setState(w, c, newState) ==
  update([w EXCEPT !.comp[c].state = MapMerge(@, newState), !.ss = @ + 1], c)

\* the bootstrap helper render(target, container)
render(v, c) ==
  Bind(v, LAMBDA w :
  LET w1 == WriteRender(w, c)
  IN IF w1.raised THEN w1 ELSE targetDidMount(w1, c)
  )

unmount(v, c) ==
  Bind(removeAllStyles(v, c), LAMBDA w1 :
    IF w1.comp[c].container
    THEN Emit([w1 EXCEPT !.dom[c] = << >>], "CLR")
    ELSE [w1 EXCEPT !.raised = TRUE])   \* TypeError: this.container is null

\* destroy() that also resets isMounted
destroyResetsMounted(v, c) ==
  Bind(unmount(v, c), LAMBDA w1 :
    IF w1.raised THEN w1
    ELSE [w1 EXCEPT !.comp[c].container = FALSE, !.comp[c].isMounted = FALSE])

destroy(v, c) ==
  Bind(unmount(v, c), LAMBDA w1 :
    IF w1.raised THEN w1 ELSE [w1 EXCEPT !.comp[c].container = FALSE])

----------------------------------------------------------------------------
(* The promise callbacks of FluidContainer.targetDidMount *)

NetError == "NetworkError"
TypeErrorMessage == "value.startsWith is not a function"

\* .then(({ json }) => { this.setState({ data: json, loading: false, fetched: true }) })
\* followed by the .catch handler when the .then handler throws
onFulfilled(v, c, json) ==
  Bind(setState(v, c, [data |-> json, loading |-> False, fetched |-> True]), LAMBDA w1 :
    IF w1.raised
    THEN setState([w1 EXCEPT !.raised = FALSE], c,
                  [data |-> Null, loading |-> False, error |-> TypeErrorMessage,
                   fetched |-> True])
    ELSE w1)

\* a promise chain without the .catch handler
onRejectedUnhandled(w, c, message) == [w EXCEPT !.raised = TRUE]

\* .catch((error) => { this.setState({ data: null, loading: false, error: error.message, fetched: true }) })
onRejected(w, c, message) ==
  setState(w, c, [data |-> Null, loading |-> False, error |-> message, fetched |-> True])

----------------------------------------------------------------------------
(* Bookkeeping of what an operation did *)

MaxScope == 2       \* props.html is re-scoped at most this many times

NoPre == [head |-> << >>, links |-> {}]
Snapshot(i) == [head |-> head, links |-> injectedLinks[i]]

Has(ev, e) == \E k \in 1..Len(ev) : ev[k] = e
Pos(ev, e) == CHOOSE k \in 1..Len(ev) : ev[k] = e /\ \A j \in 1..(k - 1) : ev[j] # e

LifecycleKinds == {"WM", "W", "DM", "DU"}
\* "SET": the caller's setState with a patch that holds the key loading
FirstKinds == LifecycleKinds \cup {"SET", "GET"}

RECURSIVE FirstsAfter(_, _)
FirstsAfter(f, ev) ==
  IF ev = << >> THEN f
  ELSE FirstsAfter(IF Head(ev) \in FirstKinds /\ ~Has(f, Head(ev))
                   THEN Append(f, Head(ev)) ELSE f,
                   Tail(ev))

\* the add operation a remove operation undoes
AddOpOf(op) ==
  CASE op = "removeLinkedStyle" -> "loadLinkedStyle"
    [] op = "removeInjectedLinkedStyle" -> "injectLinkedStyle"
    [] OTHER -> "none"

Count(ev, e) == Cardinality({k \in 1..Len(ev) : ev[k] = e})

InBounds(w) ==
  /\ Len(w.head) <= MaxHead
  /\ Cardinality({k \in 1..Len(w.head) : w.head[k].tag = "style"}) <= MaxStyles
  /\ \A c \in Comp : w.comp[c].pending <= MaxPending /\ w.comp[c].scopeN <= MaxScope

\* the operation op of component c with argument arg took World to w
Commit(v, op, c, arg, pre) ==
  \E w \in {v} :
    /\ InBounds(w)
    /\ head' = w.head
    /\ styles' = w.styles
    /\ injectedLinks' = w.links
    /\ comp' = w.comp
    /\ dom' = w.dom
    /\ firsts' = [firsts EXCEPT ![c] = FirstsAfter(@, w.caller \o w.ev)]
    /\ last' = [op |-> op, c |-> c, arg |-> arg, ev |-> w.ev, raised |-> w.raised,
                pre |-> pre,
                undo |-> /\ last.op = AddOpOf(op) /\ last.c = c /\ last.arg = arg
                         /\ Has(last.ev, "ADD"),
                ss |-> w.ss, writes |-> w.writes]
    /\ helper' = helper

----------------------------------------------------------------------------
(* Component operations *)

NoArg == "-"
EmptyPatch == EmptyMap
Patches == {"empty", "loaded"}
PatchOf(p) == IF p = "empty" THEN EmptyPatch ELSE [loading |-> False]

Update(c) ==
  /\ c \in Comp
  /\ Commit(update(World, c), "update", c, NoArg, NoPre)

SetState(c, p) ==
  /\ c \in Comp
  /\ Commit(setState([World EXCEPT !.caller = IF "loading" \in DOMAIN PatchOf(p)
                                              THEN <<"SET">> ELSE << >>],
                     c, PatchOf(p)),
            "setState", c, p, NoPre)

Render(c) ==
  /\ c \in Comp
  /\ Commit(render(World, c), "render", c, NoArg, NoPre)

Unmount(c) ==
  /\ c \in Comp
  /\ Commit(unmount(World, c), "unmount", c, NoArg, NoPre)

Destroy(c) ==
  /\ c \in Comp
  /\ Commit(destroy(World, c), "destroy", c, NoArg, NoPre)

FetchResolve(c, json) ==
  /\ comp[c].pending > 0
  /\ Commit(onFulfilled([World EXCEPT !.comp[c].pending = @ - 1], c, json),
            "fetchResolve", c, json, NoPre)

FetchReject(c) ==
  /\ comp[c].pending > 0
  /\ Commit(onRejected([World EXCEPT !.comp[c].pending = @ - 1], c, NetError),
            "fetchReject", c, NetError, NoPre)

----------------------------------------------------------------------------
(* StyleManager operations called directly *)

LoadArgs == Files \cup Urls
InjectArgs == Urls

AddStyle(i, key, css, hash, scoped) ==
  /\ i \in Comp
  /\ Commit(addStyle(World, i, key, css, hash, scoped), "addStyle", i, key, NoPre)

RemoveStyle(i, key) ==
  /\ i \in Comp
  /\ Commit(removeStyle(World, i, key), "removeStyle", i, key, NoPre)

RemoveAllStyles(i) ==
  /\ i \in Comp
  /\ Commit(removeAllStyles(World, i), "removeAllStyles", i, NoArg, NoPre)

LoadLinkedStyle(i, f) ==
  /\ i \in Comp
  /\ Commit(loadLinkedStyle(World, i, f), "loadLinkedStyle", i, f, Snapshot(i))

RemoveLinkedStyle(i, f) ==
  /\ i \in Comp
  /\ Commit(removeLinkedStyle(World, i, f), "removeLinkedStyle", i, f, NoPre)

InjectLinkedStyle(i, u) ==
  /\ i \in Comp
  /\ Commit(injectLinkedStyle(World, i, u), "injectLinkedStyle", i, u, Snapshot(i))

RemoveInjectedLinkedStyle(i, u) ==
  /\ i \in Comp
  /\ Commit(removeInjectedLinkedStyle(World, i, u), "removeInjectedLinkedStyle", i, u, NoPre)

\* the instance is discarded and a new StyleManager() takes its place;
\* the nodes the old one left in the head stay there
NewStyleManager(i) ==
  /\ head' = head
  /\ styles' = [styles EXCEPT ![i] = EmptyMap]
  /\ injectedLinks' = [injectedLinks EXCEPT ![i] = {}]
  /\ last' = [op |-> "new", c |-> i, arg |-> NoArg, ev |-> << >>, raised |-> FALSE,
              pre |-> NoPre, undo |-> FALSE, ss |-> 0, writes |-> << >>]
  /\ UNCHANGED <<comp, dom, firsts, helper>>

----------------------------------------------------------------------------
(* Calls of the static helpers *)

NoCall == [fn |-> "none", a1 |-> << >>, a2 |-> FALSE, done |-> FALSE,
           out |-> << >>, raised |-> FALSE]

Return(r) ==
  /\ helper' = [helper EXCEPT !.done = TRUE, !.out = r.out, !.raised = r.raised]
  /\ UNCHANGED <<head, styles, injectedLinks, comp, dom, firsts, last>>

EscapeHTML ==
  /\ helper.fn = "escapeHTML" /\ ~helper.done
  /\ Return(escapeHTML(helper.a1, helper.a2))

ParseHTML ==
  /\ helper.fn = "parseHTML" /\ ~helper.done
  /\ Return(parseHTML(helper.a1, helper.a2))

DataToObject ==
  /\ helper.fn = "dataToObject" /\ ~helper.done
  /\ Return(dataToObject(helper.a1))

\* the strings of at most MaxLen tokens over an alphabet
Strings(alphabet) == UNION {[1..n -> alphabet] : n \in 0..MaxLen}

TextAlphabet == {"&", "<", ">", "\"", "'", "a"}
TagAlphabet == {"<", ">", "/", "a", "h", "1", "constructor", HrefAttr, OnclickAttr}
EscapeCalls ==
  {[fn |-> "escapeHTML", a1 |-> Str(s), a2 |-> FALSE] : s \in Strings(TextAlphabet)}
  \cup {[fn |-> "escapeHTML", a1 |-> Str(s), a2 |-> TRUE] : s \in Strings(TagAlphabet)}
  \cup {[fn |-> "escapeHTML", a1 |-> v, a2 |-> b] :
          v \in {Num(41), Bool(TRUE), JsNull, Undefined}, b \in BOOLEAN}

TemplateAlphabet == {"{{", "}}", "x", "content", "toString", " "}
PlaceholderMaps ==
  {<< >>,
   [x |-> Str(<<"a", "&">>)],
   [x |-> Str(<<"{{", "x", "}}">>)],
   [x |-> Num(41), content |-> Str(<<"<", "a", HrefAttr, ">">>)]}
ParseCalls ==
  {[fn |-> "parseHTML", a1 |-> s, a2 |-> p] :
     s \in Strings(TemplateAlphabet), p \in PlaceholderMaps}

DataAlphabet == {"true", "false", "4", "{", "}", JsonBody, "h"}
OtherValues ==
  {Num(41), Bool(TRUE), JsNull, Undefined, Obj(<< >>), Arr(<< >>),
   Arr(<< <<"4">> >>), Arr(<< <<"h">>, <<"h">> >>)}
DataCalls ==
  {[fn |-> "dataToObject", a1 |-> Obj([a |-> v]), a2 |-> FALSE] :
     v \in {Str(s) : s \in Strings(DataAlphabet)} \cup OtherValues}
  \cup {[fn |-> "dataToObject", a1 |-> Obj([a |-> v, b |-> u]), a2 |-> FALSE] :
          v \in OtherValues, u \in OtherValues \cup {Str(<<"h">>)}}
  \cup {[fn |-> "dataToObject", a1 |-> v, a2 |-> FALSE] : v \in {JsNull, Undefined}}

----------------------------------------------------------------------------
(* Specifications *)

InitWith(profiles1, profiles2) ==
  /\ head = << >>
  /\ styles = [i \in Comp |-> EmptyMap]
  /\ injectedLinks = [i \in Comp |-> {}]
  /\ \E p1 \in profiles1, p2 \in profiles2 :
       comp = [c \in Comp |-> Construct(c, IF c = 1 THEN p1 ELSE p2)]
  /\ dom = [c \in Comp |-> << >>]
  /\ firsts = [c \in Comp |-> << >>]
  /\ last = [op |-> "new", c |-> 1, arg |-> NoArg, ev |-> << >>, raised |-> FALSE,
             pre |-> NoPre, undo |-> FALSE, ss |-> 0, writes |-> << >>]

\* the lifecycle of one component, with the style calls its hooks make
Init == InitWith(Profiles, {TargetProps}) /\ helper = NoCall

Next ==
  \E c \in {1} :
    \/ Update(c)
    \/ \E p \in Patches : SetState(c, p)
    \/ Render(c)
    \/ Unmount(c)
    \/ Destroy(c)
    \/ \E json \in Jsons : FetchResolve(c, json)
    \/ FetchReject(c)
    \/ \E f \in Files : LoadLinkedStyle(c, f)

Spec == Init /\ [][Next]_vars

\* the promise of a GET that has been issued settles: its .then or its .catch
\* callback runs
Settle(c) == (\E json \in Jsons : FetchResolve(c, json)) \/ FetchReject(c)

\* the lifecycle under the assumption that every GET settles
SpecLive == Spec /\ \A c \in {1} : WF_vars(Settle(c))

\* two components on one page, each with its own StyleManager
InitPair == InitWith({FluidLinksProps, FluidPlainProps}, {FluidLinksProps}) /\ helper = NoCall

NextPair ==
  \E c \in Comp :
    \/ Update(c)
    \/ Unmount(c)
    \/ Destroy(c)

SpecPair == InitPair /\ [][NextPair]_vars

\* StyleManager instances driven directly, sharing the document head
InitSM == InitWith({TargetProps}, {TargetProps}) /\ helper = NoCall

\* the <style> registry
NextSM ==
  \E i \in {1} :
    \/ \E key \in Keys, hash \in Hashes, sa \in StyleArgs :
         AddStyle(i, key, sa.css, hash, sa.scoped)
    \/ \E key \in Keys : RemoveStyle(i, key)
    \/ RemoveAllStyles(i)
    \/ NewStyleManager(i)

SpecSM == InitSM /\ [][NextSM]_vars

\* the linked-style set
NextLink ==
  \E i \in Comp :
    \/ \E f \in LoadArgs : LoadLinkedStyle(i, f)
    \/ \E f \in LoadArgs : RemoveLinkedStyle(i, f)
    \/ \E u \in InjectArgs : InjectLinkedStyle(i, u)
    \/ \E u \in InjectArgs : RemoveInjectedLinkedStyle(i, u)
    \/ RemoveAllStyles(i)
    \/ NewStyleManager(i)

SpecLink == InitSM /\ [][NextLink]_vars

\* one call of a static helper on an argument list drawn from the input sets
InitHelper ==
  /\ InitWith({TargetProps}, {TargetProps})
  /\ \E call \in EscapeCalls \cup ParseCalls \cup DataCalls :
       helper = [fn |-> call.fn, a1 |-> call.a1, a2 |-> call.a2, done |-> FALSE,
                 out |-> << >>, raised |-> FALSE]

NextHelper == EscapeHTML \/ ParseHTML \/ DataToObject

SpecHelper == InitHelper /\ [][NextHelper]_vars

----------------------------------------------------------------------------
(* Properties *)

UpdateOps == {"update", "setState"}
OwnNodes(c) == {k \in 1..Len(head) : head[k].by = c}
LinkNodes(h) == {k \in 1..Len(h) : h[k].tag = "link"}

\* C1: on a component with a container, the first update() calls targetWillMount
\* once, writes the render once, calls targetDidMount once and targetDidUpdate
\* once and leaves isMounted true; every later update() calls neither mount hook
\* and calls targetDidUpdate once.
C1_MountHooksOnce ==
  [][\A c \in Comp :
       (last'.op \in UpdateOps /\ last'.c = c /\ comp[c].container)
       => IF ~comp[c].isMounted
          THEN /\ Count(last'.ev, "WM") = 1 /\ Count(last'.ev, "W") = 1
               /\ Count(last'.ev, "DM") = 1 /\ Count(last'.ev, "DU") = 1
               /\ comp'[c].isMounted
          ELSE /\ Count(last'.ev, "WM") = 0 /\ Count(last'.ev, "DM") = 0
               /\ Count(last'.ev, "DU") = 1]_vars

\* C2: for one component, under update(), setState() and render(target, container):
\* targetWillMount comes before the first write into the container, the first
\* targetDidMount after that write, and no targetDidUpdate before targetDidMount.
C2_HookOrder ==
  \A c \in Comp :
    LET f == firsts[c]
    IN /\ Has(f, "W") => (Has(f, "WM") /\ Pos(f, "WM") < Pos(f, "W"))
       /\ Has(f, "DM") => (Has(f, "W") /\ Pos(f, "W") < Pos(f, "DM"))
       /\ Has(f, "DU") => (Has(f, "DM") /\ Pos(f, "DM") < Pos(f, "DU"))

\* C3: after destroy(), a setState() or update(), called directly or by a fetch
\* that settles after the destruction, raises nothing, calls no hook and writes
\* nothing: the former container and the document head stay as they were.
C3_PostDestroyInert ==
  [][\A c \in Comp :
       (/\ ~comp[c].container /\ last'.c = c
        /\ last'.op \in UpdateOps \cup {"fetchResolve", "fetchReject"})
       => /\ ~last'.raised /\ last'.ev = << >>
          /\ dom' = dom /\ head' = head]_vars

C3_Witness ==
  /\ ~comp[1].container /\ last.c = 1 /\ last.op = "fetchResolve"
  /\ comp[1].state.data = JsonFlat /\ dom[1] = << >> /\ Len(head) > 0

\* C4: after unmount() on a mounted component the container is empty, the
\* container reference is still set, the head holds no node this component's
\* StyleManager injected, and its registry and linked-style set are empty.
C4_UnmountClearsStyles ==
  [][\A c \in Comp :
       (last'.op = "unmount" /\ last'.c = c /\ comp[c].isMounted /\ comp[c].container)
       => /\ dom'[c] = << >> /\ comp'[c].container
          /\ \A k \in 1..Len(head') : head'[k].by # c
          /\ DOMAIN styles'[c] = {} /\ injectedLinks'[c] = {}]_vars

\* C5: after addStyle(k, ...), removeStyle(k) takes the style node out of the head
\* and k out of the registry, so that isStyleLoaded(k) is false; removeAllStyles()
\* does so for every registered key.
C5_RemoveStyleRemoves ==
  [][\A i \in Comp :
       /\ \A key \in Keys :
            (last'.op = "removeStyle" /\ last'.c = i /\ last'.arg = key
             /\ key \in DOMAIN styles[i])
            => /\ key \notin DOMAIN styles'[i]
               /\ \A k \in 1..Len(head') : head'[k].id # styles[i][key]
       /\ (last'.op = "removeAllStyles" /\ last'.c = i)
            => /\ DOMAIN styles'[i] = {}
               /\ \A key \in DOMAIN styles[i] :
                    \A k \in 1..Len(head') : head'[k].id # styles[i][key]]_vars

C7_DomHitDedup ==
  [][\A i \in Comp, key \in Keys, hash \in Hashes, sa \in StyleArgs :
       (/\ DOMAIN styles[i] = {}
        /\ QuerySelector(head, "style", key \o "-" \o hash) # 0
        /\ AddStyle(i, key, sa.css, hash, sa.scoped))
       => head' = head]_vars

\* C8: the head never holds two <link> elements with the same resolved URL,
\* whichever instances and whichever of the two injection paths added them.
C8_OneLinkPerUrl ==
  \A j, k \in LinkNodes(head) : head[j].href = head[k].href => j = k

RemoveOps == {"removeLinkedStyle", "removeInjectedLinkedStyle"}
LinkHead(h) == SelectSeq(h, LAMBDA n : n.tag = "link")

\* remove for an entry with no link of that key in the head changes nothing
RemoveMissingIsNoOp ==
  \A i \in Comp, f \in LoadArgs \cup InjectArgs :
    (last'.op \in RemoveOps /\ last'.c = i /\ last'.arg = f
     /\ QuerySelector(head, "link", f) = 0)
    => (head' = head /\ injectedLinks' = injectedLinks /\ ~last'.raised)

\* C9 as stated: from any state, the add operation followed by its remove
\* operation with the same argument restores the head's links and the instance's
\* linked-style set; a remove for an absent entry changes nothing.
C9_RemoveInvertsAdd ==
  [][/\ \A i \in Comp :
          (last'.op \in RemoveOps /\ last'.c = i /\ last.op = AddOpOf(last'.op)
           /\ last.c = i /\ last.arg = last'.arg)
          => (LinkHead(head') = LinkHead(last.pre.head)
              /\ injectedLinks'[i] = last.pre.links)
     /\ RemoveMissingIsNoOp]_vars

\* C9 amended: when the add operation created a link, the remove operation that
\* follows it with the same argument restores the head's links and the instance's
\* linked-style set; a remove for an absent entry changes nothing.
C9_RemoveInvertsCreatingAdd ==
  [][/\ \A i \in Comp :
          (last'.op \in RemoveOps /\ last'.c = i /\ last.op = AddOpOf(last'.op)
           /\ last.c = i /\ last.arg = last'.arg /\ Has(last.ev, "ADD"))
          => (LinkHead(head') = LinkHead(last.pre.head)
              /\ injectedLinks'[i] = last.pre.links)
     /\ RemoveMissingIsNoOp]_vars

C9_Witness ==
  /\ last.op = "removeLinkedStyle" /\ last.undo /\ last.arg = "./a.css"
  /\ Len(head) > 0 /\ injectedLinks[last.c] = {}

\* C10: after destroy(), update(), setState(), unmount() and a second destroy()
\* all return without raising and change neither the DOM nor the style registry.
C10_TornDownNoOps ==
  [][\A c \in Comp :
       (/\ ~comp[c].container /\ last'.c = c
        /\ last'.op \in UpdateOps \cup {"unmount", "destroy"})
       => /\ ~last'.raised
          /\ dom' = dom /\ head' = head /\ styles' = styles]_vars

\* the operations that call setState: the caller's own call and the callbacks
\* of the GET
SetStateOps == {"setState", "fetchResolve", "fetchReject"}

\* C11: every setState() call on a component that has a container performs
\* exactly one update cycle before it returns: an operation that makes n
\* setState calls (nested calls from targetDidMount included) writes n renders
\* into the container and calls targetDidUpdate n times.
C11_OneCyclePerSetState ==
  [][\A c \in Comp :
       (comp[c].container /\ last'.c = c /\ last'.op \in SetStateOps)
       => /\ Count(last'.ev, "W") = last'.ss
          /\ Count(last'.ev, "DU") = last'.ss
          /\ Len(last'.writes) = last'.ss]_vars

\* C12: for a FluidContainer with an api descriptor that still has its
\* container: when the GET resolves with json the state becomes the previous
\* state with data = json, loading = false and fetched = true; when it rejects
\* with error e the state becomes the previous state with data = null, loading
\* = false, error = e.message and fetched = true, and the container shows the
\* error fragment; neither callback lets an exception escape.
C12_FetchSettlesState ==
  [][\A c \in Comp :
       (comp[c].container /\ comp[c].props.kind = "FluidContainer" /\ comp[c].props.api)
       => /\ \A json \in Jsons :
               FetchResolve(c, json)
               => /\ comp'[c].state
                       = MapMerge(comp[c].state,
                                  [data |-> json, loading |-> False, fetched |-> True])
                  /\ ~last'.raised
          /\ FetchReject(c)
               => /\ comp'[c].state
                       = MapMerge(comp[c].state,
                                  [data |-> Null, loading |-> False, error |-> NetError,
                                   fetched |-> True])
                  /\ dom'[c] = <<"error", NetError>>
                  /\ ~last'.raised]_vars


IsFluid(c) == comp[c].props.kind = "FluidContainer"
LoadingMarker == <<"loading">>
\* this step writes into the container of c for the first time
FirstWrite(c) == ~Has(firsts[c], "W") /\ Has(firsts'[c], "W") /\ last'.c = c

\* C13 as stated: the first write into a FluidContainer's container is the
\* loading marker, whatever setState calls and fetch completions came before.
C13_FirstWriteIsLoading ==
  [][\A c \in Comp :
       (IsFluid(c) /\ FirstWrite(c)) => last'.writes[1] = LoadingMarker]_vars

\* C13 amended: the GET is issued only after the first write, so no fetch
\* completion precedes it; and unless the caller's own setState set the key
\* loading before that write, the first write is the loading marker.
C13_FirstWriteIsLoadingUnlessSet ==
  [][\A c \in Comp :
       IsFluid(c)
       => /\ comp'[c].pending > 0 => Has(firsts'[c], "W")
          /\ (last'.c = c /\ last'.op \in {"fetchResolve", "fetchReject"})
               => Has(firsts[c], "W")
          /\ (/\ FirstWrite(c)
              /\ ~(Has(firsts'[c], "SET") /\ Pos(firsts'[c], "SET") < Pos(firsts'[c], "W")))
               => last'.writes[1] = LoadingMarker]_vars

C13_Witness ==
  /\ IsFluid(1) /\ comp[1].props.api /\ comp[1].pending = 1
  /\ last.op = "update" /\ last.c = 1 /\ last.writes = <<LoadingMarker>>
  /\ firsts[1] = <<"WM", "W", "DM", "GET", "DU">> /\ dom[1] = LoadingMarker

\* the fragment render() yields from the state of k and props.html as it stands
Shown(k) ==
  IF k.props.kind = "Target" THEN << >>
  ELSE IF Truthy(k.state.loading) THEN LoadingMarker
  ELSE IF Truthy(k.state.error) THEN <<"error", k.state.error>>
  ELSE <<"html", k.scopeN, k.state.data>>

\* C14: when setState() or update(), called directly or by a callback of the
\* GET, has returned on a component that has a container, the container holds
\* the render of the component's current state, written last; this holds too
\* when targetDidMount called setState during the first update.
C14_ContentIsCurrentRender ==
  (last.op \in UpdateOps \cup SetStateOps /\ comp[last.c].container)
  => /\ dom[last.c] = Shown(comp[last.c])
     /\ last.writes # << >> /\ last.writes[Len(last.writes)] = dom[last.c]

C14_Witness ==
  /\ last.op = "update" /\ last.c = 1 /\ IsFluid(1) /\ ~comp[1].props.api
  /\ Len(last.writes) = 2 /\ last.writes[1] = LoadingMarker
  /\ dom[1] = <<"html", 0, Null>> /\ comp[1].state.loading = False

\* C15: isMounted is false until an update() on a component with a container
\* (called directly, by setState, or by the setState of a hook or callback) has
\* written the render and run targetDidMount; that update() leaves it true, and
\* no later operation sets it back to false.
C15_MountedOnceForAll ==
  [][\A c \in Comp :
       /\ comp[c].isMounted => comp'[c].isMounted
       /\ (~comp[c].isMounted /\ comp'[c].isMounted)
            => /\ last'.c = c /\ last'.op \in UpdateOps \cup SetStateOps \cup {"render"}
               /\ comp[c].container
               /\ Has(last'.ev, "W") /\ Has(last'.ev, "DM")
               /\ Pos(last'.ev, "W") < Pos(last'.ev, "DM")
       /\ (/\ last'.c = c /\ last'.op \in UpdateOps \cup SetStateOps
           /\ comp[c].container /\ ~last'.raised)
            => comp'[c].isMounted]_vars

C15_Witness ==
  /\ last.op = "destroy" /\ last.c = 1 /\ ~last.raised
  /\ comp[1].isMounted /\ ~comp[1].container /\ Has(firsts[1], "DM")

\* the patch FluidContainer.targetDidMount passes to setState
HookPatch == [loading |-> False, fetched |-> True]

\* C16 as stated: when setState(patch) has returned, every key of the patch has
\* the patch's value, every other key of the previous state has its previous
\* value, and the state has no other key.
C16_ShallowMerge ==
  [][\A c \in Comp, p \in Patches :
       SetState(c, p)
       => LET old == comp[c].state
              new == comp'[c].state
              patch == PatchOf(p)
          IN /\ DOMAIN new = DOMAIN old \cup DOMAIN patch
             /\ \A q \in DOMAIN patch : new[q] = patch[q]
             /\ \A q \in DOMAIN old \ DOMAIN patch : new[q] = old[q]]_vars

\* C16 amended: when setState(patch) has returned, the state is the shallow
\* merge of the previous state and the patch, with the patch of the setState
\* that targetDidMount made during the call, if it made one, merged on top.
C16_ShallowMergeThenHook ==
  [][\A c \in Comp, p \in Patches :
       SetState(c, p)
       => LET old == comp[c].state
              new == comp'[c].state
              patch == PatchOf(p)
              hook == IF last'.ss > 1 THEN HookPatch ELSE EmptyPatch
          IN /\ DOMAIN new = DOMAIN old \cup DOMAIN patch \cup DOMAIN hook
             /\ \A q \in DOMAIN hook : new[q] = hook[q]
             /\ \A q \in DOMAIN patch \ DOMAIN hook : new[q] = patch[q]
             /\ \A q \in DOMAIN old \ (DOMAIN patch \cup DOMAIN hook) : new[q] = old[q]
             /\ last'.ss > 1 => (IsFluid(c) /\ ~comp[c].props.api /\ Has(last'.ev, "DM"))]_vars

C16_Witness ==
  /\ last.op = "setState" /\ last.arg = "loaded" /\ last.c = 1 /\ last.ss = 1
  /\ comp[1].state = [data |-> Null, loading |-> False, error |-> Null, fetched |-> False]

BraceWrapped(v) ==
  v.t = "string" /\ Len(v.s) > 0 /\ v.s[1] = "{" /\ v.s[Len(v.s)] = "}"

\* C17: dataToObject throws for no input map, whatever the types of its values
\* (strings, null, undefined, nested objects, arrays); a brace-wrapped string
\* that is not valid JSON is kept as the raw string.
C17_DataToObjectTotal ==
  (helper.fn = "dataToObject" /\ helper.done)
  => /\ ~helper.raised
     /\ helper.a1.t = "object"
          => \A q \in DOMAIN helper.a1.m :
               (BraceWrapped(helper.a1.m[q]) /\ ~JsonParse(helper.a1.m[q].s).ok)
               => helper.out[q] = helper.a1.m[q]

\* the template with each {{identifier}} whose identifier is a key of the map
\* replaced by the escaped value, from index i on, in one pass
RECURSIVE Substituted(_, _, _)
Substituted(s, placeholders, i) ==
  IF i > Len(s) THEN << >>
  ELSE LET k == RunEnd(s, i + 1, WordTokens)
           ok == s[i] = "{{" /\ k > i + 1 /\ k <= Len(s) /\ s[k] = "}}"
           key == Join(SubSeq(s, i + 1, k - 1))
       IN IF ok /\ key \in DOMAIN placeholders
          THEN escapeHTML(placeholders[key], key = "content").out
               \o Substituted(s, placeholders, k + 1)
          ELSE <<s[i]>> \o Substituted(s, placeholders, i + 1)

\* C18: parseHTML replaces each {{identifier}} token whose identifier is in the
\* placeholders map by the escaped value and leaves every other token in place;
\* it does not expand a token that a substituted value contains.
C18_ParseSubstitutesKnownKeys ==
  (helper.fn = "parseHTML" /\ helper.done)
  => (~helper.raised /\ helper.out = Substituted(helper.a1, helper.a2, 1))

Specials == {"&", "<", ">", "\"", "'"}

\* an HTML tag that starts at index i: "<", an optional "/", a name (a letter,
\* then letters and digits), anything but ">", and ">"
HtmlTag(s, i) ==
  LET closing == i + 1 <= Len(s) /\ s[i + 1] = "/"
      j == IF closing THEN i + 2 ELSE i + 1
      k == IF j <= Len(s) /\ s[j] \in LetterTokens THEN RunEnd(s, j, WordTokens) ELSE j
      m == IF i <= Len(s) /\ s[i] = "<" /\ k > j THEN IndexFrom(s, k, ">") ELSE 0
  IN [ok |-> m # 0, closing |-> closing, end |-> m,
      name |-> IF m # 0 THEN SubSeq(s, j, k - 1) ELSE << >>,
      attrs |-> IF m # 0 THEN SubSeq(s, k, m - 1) ELSE << >>]

\* C19: escapeHTML without tags replaces every & < > " ' by its entity and
\* nothing else; with tags, the output holds a raw tag only for allow-listed
\* names, a tag with an allow-listed name is emitted with its allow-listed
\* attributes only, and a tag with any other name has its brackets replaced by
\* &lt; and &gt;.
C19_EscapeByAllowList ==
  (helper.fn = "escapeHTML" /\ helper.done /\ helper.a1.t = "string")
  => LET in == helper.a1.s
         out == helper.out
         tag == HtmlTag(in, 1)
     IN /\ ~helper.raised
        /\ ~helper.a2
             => /\ Len(out) = Len(in)
                /\ \A k \in 1..Len(in) :
                     out[k] = (IF in[k] \in Specials THEN Entity(in[k]) ELSE in[k])
                /\ \A k \in 1..Len(out) : out[k] \notin Specials
        /\ helper.a2
             => /\ \A i \in 1..Len(out) :
                     HtmlTag(out, i).ok => Join(HtmlTag(out, i).name) \in AllowedNames
                /\ (tag.ok /\ tag.end = Len(in))
                     => IF Join(tag.name) \in AllowedNames
                        THEN out = <<"<">> \o (IF tag.closing THEN <<"/">> ELSE << >>)
                                   \o tag.name
                                   \o SafeAttrs(allowedTags[Join(tag.name)], tag.attrs)
                                   \o <<">">>
                        ELSE Len(out) > 0 /\ out[1] = "&lt;" /\ out[Len(out)] = "&gt;"

\* C20: a FluidContainer on which update() has run, with every GET it issued
\* settling, reaches a point from which on, unless it has been destroyed,
\* state.loading is false, state.fetched is true and the container does not
\* show the loading marker.
C20_EventuallyLoaded ==
  \A c \in Comp :
    []((IsFluid(c) /\ comp[c].isMounted)
       => <>[](\/ ~comp[c].container
               \/ /\ MapGet(comp[c].state, "loading", Null) = False
                  /\ MapGet(comp[c].state, "fetched", Null) = True
                  /\ dom[c] # LoadingMarker))

C20_Witness ==
  /\ IsFluid(1) /\ comp[1].props.api /\ comp[1].isMounted /\ comp[1].container
  /\ last.op = "fetchResolve" /\ last.arg = JsonFlat /\ comp[1].pending = 0
  /\ comp[1].state.loading = False /\ comp[1].state.fetched = True
  /\ dom[1] = <<"html", 1, JsonFlat>>

\* a <link> node for url is in the head h
HasLink(h, url) == \E k \in 1..Len(h) : h[k].tag = "link" /\ h[k].href = url

\* component c has run targetWillMount with url among its props.links, and its
\* container holds its render
MountedWith(c, url) ==
  /\ comp[c].isMounted /\ comp[c].container /\ dom[c] # << >>
  /\ \E k \in 1..Len(comp[c].props.links) : comp[c].props.links[k] = url

\* C21: when two mounted components have both requested the same stylesheet
\* URL through injectLinkedStyle, an unmount() or destroy() of one of them
\* leaves the link node of that URL in the head.
C21_SharedLinkSurvives ==
  [][\A c \in Comp, d \in Comp, url \in Urls :
       (/\ c # d /\ last'.op \in {"unmount", "destroy"} /\ last'.c = c
        /\ MountedWith(c, url) /\ MountedWith(d, url) /\ HasLink(head, url))
       => HasLink(head', url)]_vars

\* C22: with several StyleManager instances on one head, every key of an
\* instance's style registry maps to a style node that is in the head, and
\* every URL of an instance's linked-style set has a link node in the head.
C22_RegistriesMatchHead ==
  \A i \in Comp :
    /\ \A key \in DOMAIN styles[i] :
         \E k \in 1..Len(head) : head[k].tag = "style" /\ head[k].id = styles[i][key]
    /\ \A url \in injectedLinks[i] : HasLink(head, url)

\* the container of c holds the html fragment
ShowsHtml(c) == Len(dom[c]) = 3 /\ dom[c][1] = "html"

\* the class names in the markup the container of c holds
MarkupClasses(c) == PropsHtml(comp[c].hash, dom[c][2])

\* C23: in the markup a FluidContainer with props.scoped has rendered outside
\* the loading and error states, every class name is the template's class name
\* followed by the component's hash suffix once.
C23_SuffixOnce ==
  \A c \in Comp :
    (IsFluid(c) /\ comp[c].props.scoped /\ ShowsHtml(c))
    => MarkupClasses(c) = scopeCSS(TemplateClasses, comp[c].hash)

\* C24: a FluidContainer with an api descriptor issues at most one GET over
\* its lifetime, under update(), setState(), render(target, container) and the
\* settlement of the fetch: an operation issues at most one, and none when an
\* earlier operation has issued one.
C24_AtMostOneGet ==
  [][\A c \in Comp :
       (IsFluid(c) /\ comp[c].props.api /\ last'.c = c)
       => Count(last'.ev, "GET") + (IF Has(firsts[c], "GET") THEN 1 ELSE 0) <= 1]_vars

====
